---- MODULE Spec2Model ----
(***************************************************************************)
(* FLASHPLATE: the App component (watchlist store, detection poller, match *)
(* evaluator, alert signal) and the detectPlatesFromImage service.         *)
(*                                                                         *)
(* Strings are sequences of one-character strings.  Time is counted in     *)
(* units of 200 ms, so the 1800 ms poll period is 9 units and the 5000 ms  *)
(* alert delay is 25 units.  A timer may fire at or after its delay, never *)
(* before it.                                                              *)
(*                                                                         *)
(* React state lives in plates, mode, isProcessing, detectedRecently and   *)
(* sessionLog.  A state setter only records the new value; the closures    *)
(* the timer and the handlers run (processFrame, addPlate, removePlate)    *)
(* see the values of the last committed render (rendered), and the effects *)
(* run when a render is committed.                                         *)
(***************************************************************************)
EXTENDS Integers, Sequences, FiniteSets, TLC

\* ------------------------------------------------------------------ bounds
MaxPlates   == 2    \* watchlist entries the user keeps at once
MaxIds      == 3    \* crypto.randomUUID() values drawn
MaxCalls    == 2    \* detection calls outstanding at once
MaxResponse == 1    \* plates in one well-formed Detector response
MaxPending  == 2    \* getUserMedia requests outstanding at once
MaxStreams  == 2    \* camera streams live at once
MaxTimeouts == 2    \* alert-clear timeouts pending at once
MaxReports  == 1    \* plates the Detector reports in a run of Spec
AlertReports == 2   \* plates the Detector reports in a run of SpecAlert
LogOverflow == 5    \* detections beyond LOG_CAP in a run of SpecLog
MaxChunk    == 2    \* plates in one response of SpecLog
MaxTyped    == 3    \* characters typed into the PLAQUE field in a run of SpecNormalize

\* ------------------------------------------------------- program constants
LOG_CAP       == 10   \* .slice(0, 10)
MIN_LEN       == 4    \* normalized.length < 4
POLL_UNITS    == 9    \* setInterval(processFrame, 1800)
CLEAR_UNITS   == 25   \* setTimeout(..., 5000)
MIN_IMAGE_LEN == 50   \* base64Image.length < 50

None == "none"           \* no alert message, no call settled yet
NoStream == 0            \* streamRef.current = null, srcObject = null
Null == <<"null">>       \* detectedRecently = null
LIST == "LIST"
FLASH == "FLASH"

\* -------------------------------------------------------------- normalizer
\* String.prototype.toUpperCase on one character; the sharp s uppercases to
\* two characters.
\* toUpperCase left out: the character as typed.
toUpperCase_Identity(c) == <<c>>

toUpperCase(c) ==
  CASE c = "a" -> <<"A">>
    [] c = "b" -> <<"B">>
    [] c = "c" -> <<"C">>
    [] c = "d" -> <<"D">>
    [] c = "x" -> <<"X">>
    [] c = "y" -> <<"Y">>
    [] c = "z" -> <<"Z">>
    [] c = "ß" -> <<"S", "S">>
    [] OTHER   -> <<c>>

AZ09 == {"A", "B", "C", "D", "S", "X", "Y", "Z", "0", "1", "2", "3", "4", "9"}

RECURSIVE UpperAll(_)
UpperAll(s) == IF s = <<>> THEN <<>> ELSE toUpperCase(Head(s)) \o UpperAll(Tail(s))

\* .replace(/[^A-Z0-9]/, '') without the g flag: only the first one is removed.
StripNonAZ09_First(s) ==
  LET bad == {k \in 1 .. Len(s) : s[k] \notin AZ09}
  IN IF bad = {} THEN s
     ELSE LET k == CHOOSE x \in bad : \A y \in bad : x <= y
          IN SubSeq(s, 1, k - 1) \o SubSeq(s, k + 1, Len(s))

\* .replace(/[^A-Z0-9]/g, '')
StripNonAZ09(s) == SelectSeq(s, LAMBDA c : c \in AZ09)

\* val.toUpperCase() alone.
normalizePlate_NoStrip(val) == UpperAll(val)

normalizePlate(val) == StripNonAZ09(UpperAll(val))

\* -------------------------------------------------------------- small helpers
\* .slice(0, n) written as .slice(0, n + 1).
slice_OneMore(s, n) == SubSeq(s, 1, IF Len(s) < n + 1 THEN Len(s) ELSE n + 1)

\* .slice(0, n)
slice(s, n) == SubSeq(s, 1, IF Len(s) < n THEN Len(s) ELSE n)

RemoveAt(s, i) == SubSeq(s, 1, i - 1) \o SubSeq(s, i + 1, Len(s))

Str(cs) == [isString |-> TRUE, chars |-> cs]

\* An element of the plates array that is not a string (JSON number).
NonString == [isString |-> FALSE, chars |-> <<>>]

\* ------------------------------------------------------------- input domains
\* What the user types into the PLAQUE field before pressing ADD.
RawInputs ==
  { <<"a", "b", "-", "1", "2">>,        \* "ab-12"  -> AB12
    <<"A", "B", "1", "2">>,             \* "AB12"   -> AB12
    <<"x", "y", "z">>,                  \* "xyz"    -> XYZ   (length 3)
    <<"x", "-", "y", " ", "z", "!">>,   \* "x-y z!" -> XYZ   (length 3)
    <<"c", "d", "3", "4">>,             \* "cd34"   -> CD34
    <<"ß", "a", "b">> }                 \* "ßab"    -> SSAB  (length 4)

\* Raw strings the Detector reports.
RawDetections ==
  { <<"A", "B", "1", "2">>,             \* AB12
    <<"c", "d", "-", "3", "4">>,        \* CD34
    <<"Z", "Z", "9", "9">> }            \* ZZ99, never watched

Ids == 1 .. MaxIds

StreamIds == 1 .. MaxStreams

\* ------------------------------------------------------------------ Detector
\* One outcome of a detectPlatesFromImage call: the length of the encoded
\* frame, whether generateContent rejects, the response text ("" for an empty
\* text, "garbage" for text JSON.parse rejects, "json" otherwise), and the
\* parsed value.
Response(len, rej, text, isNull, isArr, ps) ==
  [imageLen |-> len, rejects |-> rej, text |-> text, jsonNull |-> isNull,
   platesIsArray |-> isArr, plates |-> ps]

ShortImage   == Response(MIN_IMAGE_LEN - 1, FALSE, "json", FALSE, TRUE, <<Str(<<"A", "B", "1", "2">>)>>)
ServiceError == Response(MIN_IMAGE_LEN, TRUE, "", FALSE, FALSE, <<>>)
EmptyText    == Response(MIN_IMAGE_LEN, FALSE, "", FALSE, FALSE, <<>>)
BadJSON      == Response(MIN_IMAGE_LEN, FALSE, "garbage", FALSE, FALSE, <<>>)
NullJSON     == Response(MIN_IMAGE_LEN, FALSE, "json", TRUE, FALSE, <<>>)
NotArray     == Response(MIN_IMAGE_LEN, FALSE, "json", FALSE, FALSE, <<Str(<<"A", "B", "1", "2">>)>>)

FailedResponses == {ServiceError, EmptyText, BadJSON, NotArray}

RECURSIVE SeqsUpTo(_, _)
SeqsUpTo(S, n) ==
  IF n = 0 THEN {<<>>}
  ELSE LET shorter == SeqsUpTo(S, n - 1)
       IN shorter \cup {Append(s, x) : s \in {t \in shorter : Len(t) = n - 1}, x \in S}

Elements == {Str(cs) : cs \in RawDetections} \cup {NonString}

OkResponses ==
  {Response(MIN_IMAGE_LEN, FALSE, "json", FALSE, TRUE, ps) : ps \in SeqsUpTo(Elements, MaxResponse)}

Responses == FailedResponses \cup {ShortImage, NullJSON} \cup OkResponses

\* detectPlatesFromImage without the Array.isArray test of line 48.
detectPlatesFromImage_NoArrayTest(resp) ==
  IF resp.imageLen < MIN_IMAGE_LEN THEN <<>>
  ELSE IF resp.rejects THEN <<>>
  ELSE IF resp.text = "" THEN <<>>
  ELSE IF resp.text = "garbage" THEN <<>>
  ELSE IF resp.jsonNull THEN <<>>
  ELSE resp.plates

\* How a response is classified in the history.
Kind(resp) ==
  IF resp \in FailedResponses THEN "failed"
  ELSE IF resp \in OkResponses THEN "ok"
  ELSE "other"

detectPlatesFromImage(resp) ==
  IF resp.imageLen < MIN_IMAGE_LEN THEN <<>>
  ELSE IF resp.rejects THEN <<>>                 \* catch: return []
  ELSE IF resp.text = "" THEN <<>>               \* if (!resultText) return []
  ELSE IF resp.text = "garbage" THEN <<>>        \* JSON.parse throws, catch
  ELSE IF resp.jsonNull THEN <<>>                \* result.plates throws, catch
  ELSE IF resp.platesIsArray THEN resp.plates
  ELSE <<>>

\* --------------------------------------------------------------------- state
VARIABLES
  plates,            \* useState<Plate[]>: sequence of [id, number], newest first
  mode,              \* useState<AppMode>
  isProcessing,      \* useState(false): the in-flight flag
  detectedRecently,  \* useState<string | null>: AlertState
  sessionLog,        \* useState: sequence of [number, match], newest first
  rendered,          \* [plates, isProcessing, mode] of the last committed render
  mounted,           \* the mount effects have run
  storage,           \* localStorage['flash_plates']
  interval,          \* the registered interval and the processFrame closure it calls
  tickIn,            \* units until the interval may fire
  streamRef,         \* streamRef.current: a stream id or NoStream
  videoSrc,          \* videoRef.current.srcObject: a stream id or NoStream
  videoReady,        \* videoRef.current.readyState = HAVE_ENOUGH_DATA
  ctxOk,             \* canvasRef.current.getContext('2d') is not null
  liveStreams,       \* acquired streams whose tracks are not stopped
  pendingGUM,        \* getUserMedia promises not yet settled
  calls,             \* detectPlatesFromImage calls in flight: the plates each closure holds
  timeouts,          \* pending alert-clear timeouts: units left, ascending
  alertMsg,          \* last window.alert message, or None
  nextId,            \* next crypto.randomUUID() value
  lastAdd,           \* history: the last addPlate call, its input and its outcome
  lastResolve,       \* history: how the last call settled and the audio plays it triggered
  evaluated,         \* history: every detection evaluated, newest first
  reportsLeft,       \* plates the Detector will still report in this run
  sinceWrite,        \* units since AlertState was last written by a match (at most CLEAR_UNITS)
  scheduledAgo       \* history: per pending timeout, units since its match wrote AlertState

vars == <<plates, mode, isProcessing, detectedRecently, sessionLog, rendered, mounted,
          storage, interval, tickIn, streamRef, videoSrc, videoReady, ctxOk, liveStreams,
          pendingGUM, calls, timeouts, alertMsg, nextId, lastAdd, lastResolve,
          evaluated, reportsLeft, sinceWrite, scheduledAgo>>

cameraVars == <<streamRef, videoSrc, videoReady, ctxOk, liveStreams, pendingGUM>>
evalVars == <<detectedRecently, sessionLog, timeouts, evaluated, reportsLeft, sinceWrite, lastResolve,
              scheduledAgo>>

TooShortMsg == "Plaque trop courte"
DuplicateMsg == "Deja surveille"
CameraMsg == "Erreur Camera. Verifiez les permissions."

\* ---------------------------------------------------------------- persistence
\* JSON.stringify(plates): an array of objects becomes text; here a sequence of
\* <<id, number>> pairs.  JSON.parse rebuilds the objects.
JSONstringify(ps) == [i \in 1 .. Len(ps) |-> <<ps[i].id, ps[i].number>>]

JSONparse(blob) == [i \in 1 .. Len(blob) |-> [id |-> blob[i][1], number |-> blob[i][2]]]

\* What a previous session may have left under 'flash_plates'.
Saved(blob) == [saved |-> TRUE, blob |-> blob]

NoData == [saved |-> FALSE, blob |-> <<>>]      \* getItem returns null

InitialStores ==
  { NoData,
    Saved(JSONstringify(<<[id |-> 0, number |-> <<"A", "B", "1", "2">>]>>)) }

Snapshot(p, ip, m) == [plates |-> p, isProcessing |-> ip, mode |-> m]

Registered(c) == [on |-> TRUE, closure |-> c]

NoInterval == [on |-> FALSE, closure |-> Snapshot(<<>>, FALSE, LIST)]

NotSettled == [kind |-> None, audio |-> 0]

NoAdd == [raw |-> <<>>, result |-> None, flip |-> FALSE]

Added(raw, result) == [raw |-> raw, result |-> result, flip |-> ~lastAdd.flip]

InitWith(stores, reports) ==
  /\ plates = <<>>
  /\ mode = LIST
  /\ isProcessing = FALSE
  /\ detectedRecently = Null
  /\ sessionLog = <<>>
  /\ rendered = Snapshot(<<>>, FALSE, LIST)
  /\ mounted = FALSE
  /\ storage \in stores
  /\ interval = NoInterval
  /\ tickIn = 0
  /\ streamRef = NoStream
  /\ videoSrc = NoStream
  /\ videoReady = FALSE
  /\ ctxOk = FALSE
  /\ liveStreams = {}
  /\ pendingGUM = 0
  /\ calls = <<>>
  /\ timeouts = <<>>
  /\ alertMsg = None
  /\ nextId = 1
  /\ lastAdd = NoAdd
  /\ lastResolve = NotSettled
  /\ evaluated = <<>>
  /\ reportsLeft = reports
  /\ sinceWrite = CLEAR_UNITS
  /\ scheduledAgo = <<>>

Init == InitWith(InitialStores, MaxReports)

\* ------------------------------------------------------------ mount and commit
\* First commit: the load effect, the save effect and the camera effect run in
\* order with the closures of the first render (plates = []).
Mount ==
  /\ ~mounted
  /\ mounted' = TRUE
  /\ plates' = IF storage.saved THEN JSONparse(storage.blob) ELSE plates
  /\ storage' = Saved(JSONstringify(rendered.plates))
  /\ UNCHANGED <<mode, isProcessing, rendered, interval, tickIn, alertMsg, nextId, lastAdd,
                 calls>>
  /\ UNCHANGED cameraVars
  /\ UNCHANGED evalVars

\* stopCamera: stop the tracks of streamRef.current, if any.
stopCamera(ref, live) == [ref |-> NoStream, live |-> live \ {ref}]

\* startCamera up to its await: one more getUserMedia promise.  A request made
\* while MaxPending are outstanding is one the device refuses at once.
startCamera ==
  IF pendingGUM < MaxPending
    THEN pendingGUM' = pendingGUM + 1 /\ alertMsg' = alertMsg
    ELSE pendingGUM' = pendingGUM /\ alertMsg' = CameraMsg

\* React commits a render of state (p, ip, m): the DOM is updated (the <video>
\* and <canvas> exist in FLASH mode only), then the effects whose dependencies
\* changed run: the save effect on [plates], the camera effect on
\* [mode, processFrame], processFrame being a new closure whenever plates,
\* isProcessing or mode changed (newArray: setPlates got a new array).
CommitRender(p, ip, m, newArray) ==
  LET new == Snapshot(p, ip, m)
      remount == rendered.mode # m
      platesChanged == newArray \/ p # rendered.plates
      rerun == platesChanged \/ new # rendered
      cleaned == stopCamera(streamRef, liveStreams)          \* cleanup of the previous run
      frozen == rerun /\ streamRef # NoStream /\ videoSrc = streamRef
  IN /\ rendered' = new
     /\ storage' = IF platesChanged THEN Saved(JSONstringify(p)) ELSE storage
     /\ IF rerun
          THEN /\ streamRef' = cleaned.ref
               /\ liveStreams' = cleaned.live
               /\ IF m = FLASH
                    THEN interval' = Registered(new) /\ tickIn' = POLL_UNITS /\ startCamera
                    ELSE interval' = NoInterval /\ tickIn' = 0
                         /\ UNCHANGED <<pendingGUM, alertMsg>>
          ELSE UNCHANGED <<streamRef, liveStreams, interval, tickIn, pendingGUM, alertMsg>>
     /\ IF remount
          THEN /\ videoSrc' = NoStream
               /\ videoReady' = FALSE
               /\ ctxOk' \in (IF m = FLASH THEN BOOLEAN ELSE {FALSE})
          ELSE /\ videoSrc' = videoSrc
               /\ ctxOk' = ctxOk
               \* a <video> whose stream was stopped may keep or lose its readyState
               /\ videoReady' \in (IF frozen THEN {videoReady, FALSE} ELSE {videoReady})

\* The render React scheduled for a state update made outside an event handler
\* (interval callback, promise continuation, effect) is committed.
Commit ==
  /\ mounted
  /\ Snapshot(plates, isProcessing, mode) # rendered
  /\ CommitRender(plates, isProcessing, mode, FALSE)
  /\ UNCHANGED <<plates, mode, isProcessing, mounted, nextId, lastAdd, calls>>
  /\ UNCHANGED evalVars

\* ------------------------------------------------------------- user handlers
\* A click is a discrete event: the handler runs with the closures of the last
\* committed render and React commits the resulting render before the event ends.
Ready == mounted /\ plates = rendered.plates

\* onClick={() => setMode(...)}: the Base button and the SCAN/DISCONNECT toggle.
SwitchMode(m) ==
  /\ Ready
  /\ m # mode
  /\ mode' = m
  /\ CommitRender(plates, isProcessing, m, FALSE)
  /\ UNCHANGED <<plates, isProcessing, mounted, nextId, lastAdd, calls>>
  /\ UNCHANGED evalVars

\* plates.some(p => p.number === token)
contains(ps, token) == \E i \in 1 .. Len(ps) : ps[i].number = token

\* The length test written as normalized.length <= 4.
TooShort_AtMost(normalized) == Len(normalized) <= MIN_LEN

\* normalized.length < 4
TooShort(normalized) == Len(normalized) < MIN_LEN

\* addPlate with newPlate = raw, line 45-48: alert and return.
AddTooShort(raw) ==
  /\ Ready /\ rendered.mode = LIST
  /\ TooShort(normalizePlate(raw))
  /\ alertMsg' = TooShortMsg
  /\ lastAdd' = Added(raw, "tooShort")
  /\ UNCHANGED <<plates, mode, isProcessing, rendered, mounted, storage, interval, tickIn,
                 nextId, calls>>
  /\ UNCHANGED cameraVars
  /\ UNCHANGED evalVars

\* addPlate, line 49-52: alert and return.
AddDuplicate(raw) ==
  /\ Ready /\ rendered.mode = LIST
  /\ ~TooShort(normalizePlate(raw))
  /\ contains(rendered.plates, normalizePlate(raw))
  /\ alertMsg' = DuplicateMsg
  /\ lastAdd' = Added(raw, "duplicate")
  /\ UNCHANGED <<plates, mode, isProcessing, rendered, mounted, storage, interval, tickIn,
                 nextId, calls>>
  /\ UNCHANGED cameraVars
  /\ UNCHANGED evalVars

\* addPlate with setPlates([...plates, plate]): the new entry goes last.
AddNew_Appends(raw) ==
  /\ Ready /\ rendered.mode = LIST
  /\ ~TooShort(normalizePlate(raw))
  /\ ~contains(rendered.plates, normalizePlate(raw))
  /\ Len(rendered.plates) < MaxPlates /\ nextId <= MaxIds
  /\ plates' = Append(rendered.plates, [id |-> nextId, number |-> normalizePlate(raw)])
  /\ nextId' = nextId + 1
  /\ lastAdd' = Added(raw, "added")
  /\ CommitRender(plates', isProcessing, mode, TRUE)
  /\ UNCHANGED <<mode, isProcessing, mounted, calls>>
  /\ UNCHANGED evalVars

\* addPlate, line 53-59: setPlates([plate, ...plates]), then the save effect.
AddNew(raw) ==
  /\ Ready /\ rendered.mode = LIST
  /\ ~TooShort(normalizePlate(raw))
  /\ ~contains(rendered.plates, normalizePlate(raw))
  /\ Len(rendered.plates) < MaxPlates /\ nextId <= MaxIds
  /\ plates' = <<[id |-> nextId, number |-> normalizePlate(raw)]>> \o rendered.plates
  /\ nextId' = nextId + 1
  /\ lastAdd' = Added(raw, "added")
  /\ CommitRender(plates', isProcessing, mode, TRUE)
  /\ UNCHANGED <<mode, isProcessing, mounted, calls>>
  /\ UNCHANGED evalVars

\* plates.filter(p => p.id === id): the test inverted.
filter_Inverted(ps, id) == SelectSeq(ps, LAMBDA q : q.id = id)

\* plates.filter(p => p.id !== id)
filter(ps, id) == SelectSeq(ps, LAMBDA q : q.id # id)

\* removePlate(id): the trash button of an entry, or any other id.
removePlate(id) ==
  /\ Ready /\ rendered.mode = LIST
  /\ plates' = filter(rendered.plates, id)
  /\ CommitRender(plates', isProcessing, mode, TRUE)
  /\ UNCHANGED <<mode, isProcessing, mounted, nextId, lastAdd, calls>>
  /\ UNCHANGED evalVars

\* ---------------------------------------------------------------- the camera
\* getUserMedia resolves with a new stream s.
CameraGranted(s) ==
  /\ pendingGUM > 0
  /\ s \notin liveStreams
  /\ pendingGUM' = pendingGUM - 1
  /\ liveStreams' = liveStreams \cup {s}
  /\ IF rendered.mode = FLASH                       \* if (videoRef.current)
       THEN videoSrc' = s /\ streamRef' = s /\ videoReady' = FALSE
       ELSE UNCHANGED <<videoSrc, streamRef, videoReady>>
  /\ UNCHANGED <<plates, mode, isProcessing, rendered, mounted, storage, interval, tickIn,
                 ctxOk, calls, alertMsg, nextId, lastAdd>>
  /\ UNCHANGED evalVars

\* getUserMedia rejects: console.error and alert.
CameraDenied ==
  /\ pendingGUM > 0
  /\ pendingGUM' = pendingGUM - 1
  /\ alertMsg' = CameraMsg
  /\ UNCHANGED <<plates, mode, isProcessing, rendered, mounted, storage, interval, tickIn,
                 streamRef, videoSrc, videoReady, ctxOk, liveStreams, calls, nextId, lastAdd>>
  /\ UNCHANGED evalVars

\* The <video> has buffered enough of its live stream.
VideoHasData ==
  /\ videoSrc # NoStream /\ videoSrc \in liveStreams
  /\ ~videoReady
  /\ videoReady' = TRUE
  /\ UNCHANGED <<plates, mode, isProcessing, rendered, mounted, storage, interval, tickIn,
                 streamRef, videoSrc, ctxOk, liveStreams, pendingGUM, calls, alertMsg,
                 nextId, lastAdd>>
  /\ UNCHANGED evalVars

\* --------------------------------------------------------------- processFrame
\* The interval callback is the processFrame closure registered by the effect.
TickDue == interval.on /\ tickIn = 0

\* Line 97-98: the entry guard, read from the closure and the refs.
Skips(c) ==
  \/ rendered.mode # FLASH          \* !videoRef.current || !canvasRef.current
  \/ c.isProcessing
  \/ c.mode # FLASH
  \/ ~videoReady

TickSkip ==
  /\ TickDue
  /\ Skips(interval.closure)
  /\ tickIn' = POLL_UNITS
  /\ UNCHANGED <<plates, mode, isProcessing, rendered, mounted, storage, interval,
                 calls, alertMsg, nextId, lastAdd>>
  /\ UNCHANGED cameraVars
  /\ UNCHANGED evalVars

\* Line 100-102: the flag is set, then getContext('2d') returns null.
TickNoContext ==
  /\ TickDue
  /\ ~Skips(interval.closure)
  /\ ~ctxOk
  /\ isProcessing' = TRUE
  /\ tickIn' = POLL_UNITS
  /\ UNCHANGED <<plates, mode, rendered, mounted, storage, interval,
                 calls, alertMsg, nextId, lastAdd>>
  /\ UNCHANGED cameraVars
  /\ UNCHANGED evalVars

\* Line 100-115: the flag is set, the frame is drawn and the call is issued.
TickDetect ==
  /\ TickDue
  /\ ~Skips(interval.closure)
  /\ ctxOk
  /\ Len(calls) < MaxCalls
  /\ isProcessing' = TRUE
  /\ calls' = Append(calls, interval.closure.plates)
  /\ tickIn' = POLL_UNITS
  /\ UNCHANGED <<plates, mode, rendered, mounted, storage, interval, alertMsg, nextId, lastAdd>>
  /\ UNCHANGED cameraVars
  /\ UNCHANGED evalVars

\* setTimeout(() => setDetectedRecently(null), 500): a digit lost.
scheduleClear_Short(ts) == Append(ts, CLEAR_UNITS \div 10)

\* Line 131: setTimeout(() => setDetectedRecently(null), 5000)
scheduleClear(ts) == Append(ts, CLEAR_UNITS)

\* Line 117-133: detected.forEach over the elements, with the plates of the
\* closure (snap).  st = [log, alert, timeouts, audio, evaluated, since, ago].  An
\* element that is not a string makes normalizePlate throw: the loop stops and
\* the catch logs the error.
RECURSIVE forEach(_, _, _)
forEach(st, detected, snap) ==
  IF detected = <<>> THEN st
  ELSE IF ~Head(detected).isString THEN st
  ELSE LET norm == normalizePlate(Head(detected).chars)
           isMatch == contains(snap, norm)
           entry == [number |-> norm, match |-> isMatch]
           logged == [st EXCEPT !.log = slice(<<entry>> \o st.log, LOG_CAP),
                                !.evaluated = <<entry>> \o st.evaluated]
           alerted == IF isMatch
                        THEN [logged EXCEPT !.alert = norm,
                                            !.audio = st.audio + 1,
                                            !.timeouts = scheduleClear(st.timeouts),
                                            !.since = 0,
                                            !.ago = Append(st.ago, 0)]
                        ELSE logged
       IN forEach(alerted, Tail(detected), snap)

\* The await of call i settles with resp; the try body and the finally run.
Resolve(i, resp) ==
  /\ i \in 1 .. Len(calls)
  /\ LET st0 == [log |-> sessionLog, alert |-> detectedRecently, timeouts |-> timeouts,
                 audio |-> 0, evaluated |-> evaluated, since |-> sinceWrite,
                 ago |-> scheduledAgo]
         st == forEach(st0, detectPlatesFromImage(resp), calls[i])
     IN /\ Len(st.evaluated) - Len(evaluated) <= reportsLeft
        /\ Len(st.timeouts) <= MaxTimeouts
        /\ sessionLog' = st.log
        /\ detectedRecently' = st.alert
        /\ timeouts' = st.timeouts
        /\ evaluated' = st.evaluated
        /\ sinceWrite' = st.since
        /\ scheduledAgo' = st.ago
        /\ reportsLeft' = reportsLeft - (Len(st.evaluated) - Len(evaluated))
        /\ lastResolve' = [kind |-> Kind(resp), audio |-> st.audio]
  /\ calls' = RemoveAt(calls, i)
  /\ isProcessing' = FALSE
  /\ UNCHANGED <<plates, mode, rendered, mounted, storage, interval, tickIn,
                 alertMsg, nextId, lastAdd>>
  /\ UNCHANGED cameraVars

\* Line 131: a timeout whose 5000 ms have passed runs setDetectedRecently(null).
ClearAlert ==
  /\ timeouts # <<>>
  /\ Head(timeouts) = 0
  /\ timeouts' = Tail(timeouts)
  /\ scheduledAgo' = Tail(scheduledAgo)
  /\ detectedRecently' = Null
  /\ UNCHANGED <<plates, mode, isProcessing, rendered, mounted, storage, interval, tickIn,
                 calls, alertMsg, nextId, lastAdd, lastResolve, sessionLog, evaluated,
                 reportsLeft, sinceWrite>>
  /\ UNCHANGED cameraVars

\* ----------------------------------------------------------------------- time
\* The delays still running: the interval's and the timeouts'.
Running == (IF interval.on /\ tickIn > 0 THEN {tickIn} ELSE {})
             \cup {timeouts[k] : k \in {n \in 1 .. Len(timeouts) : timeouts[n] > 0}}

Least(S) == CHOOSE x \in S : \A y \in S : x <= y

After(n, d) == IF n > d THEN n - d ELSE 0

\* Time passes until the next delay runs out.  The callback of a delay that has
\* run out may still be waiting for its turn, so any timer can fire late.
Advance ==
  /\ Running # {}
  /\ LET d == Least(Running)
     IN /\ tickIn' = After(tickIn, d)
        /\ timeouts' = [k \in 1 .. Len(timeouts) |-> After(timeouts[k], d)]
        /\ sinceWrite' = IF sinceWrite + d < CLEAR_UNITS THEN sinceWrite + d ELSE CLEAR_UNITS
        /\ scheduledAgo' = [k \in 1 .. Len(scheduledAgo) |->
                               IF scheduledAgo[k] + d < CLEAR_UNITS THEN scheduledAgo[k] + d
                               ELSE CLEAR_UNITS]
  /\ UNCHANGED <<plates, mode, isProcessing, rendered, mounted, storage, interval,
                 calls, alertMsg, nextId, lastAdd, lastResolve, sessionLog, evaluated,
                 reportsLeft, detectedRecently>>
  /\ UNCHANGED cameraVars

\* ---------------------------------------------------------------- the program
\* The capture session: the watchlist is the one loaded at start; the user
\* switches modes and removes entries; the camera, the Detector and the timers
\* behave in every way they can.
Next ==
  \/ Mount
  \/ Commit
  \/ \E m \in {LIST, FLASH} : SwitchMode(m)
  \/ \E id \in Ids \cup {0} : removePlate(id)
  \/ \E s \in StreamIds : CameraGranted(s)
  \/ CameraDenied
  \/ VideoHasData
  \/ TickSkip
  \/ TickNoContext
  \/ TickDetect
  \/ \E i \in 1 .. MaxCalls, resp \in Responses : Resolve(i, resp)
  \/ ClearAlert
  \/ Advance

Spec == Init /\ [][Next]_vars

\* The watchlist editor: the user adds and removes entries in LIST mode.
NextStore ==
  \/ Mount
  \/ Commit
  \/ \E raw \in RawInputs : AddTooShort(raw)
  \/ \E raw \in RawInputs : AddDuplicate(raw)
  \/ \E raw \in RawInputs : AddNew(raw)
  \/ \E id \in Ids \cup {0} : removePlate(id)

SpecStore == Init /\ [][NextStore]_vars

\* A capture session over a watchlist of two plates: the user opens the camera
\* view and stays there, the camera is granted, the canvas gives a context.
TwoWatched ==
  Saved(JSONstringify(<<[id |-> 0, number |-> <<"A", "B", "1", "2">>],
                        [id |-> -1, number |-> <<"C", "D", "3", "4">>]>>))

InitAlert == InitWith({TwoWatched}, AlertReports)

NextAlert ==
  \/ Mount
  \/ Commit
  \/ SwitchMode(FLASH)
  \/ \E s \in StreamIds : CameraGranted(s)
  \/ VideoHasData
  \/ TickSkip
  \/ TickNoContext
  \/ TickDetect
  \/ \E i \in 1 .. MaxCalls, resp \in Responses : Resolve(i, resp)
  \/ ClearAlert
  \/ Advance

SpecAlert == InitAlert /\ [][NextAlert]_vars

\* A long capture session fed like the session-log test: the Detector reports
\* the plates of FeedRaw in this order, over and over, up to MaxChunk of them
\* per call, LOG_CAP + LogOverflow in all.
FeedRaw ==
  << <<"A", "B", "1", "2">>, <<"c", "d", "-", "3", "4">>, <<"Z", "Z", "9", "9">>,
     <<"c", "d", "3", "4">>, <<"z", "z", "9", "9">>, <<"C", "D", "3", "4">>,
     <<"Z", "Z", "-", "9", "9">> >>

Feed(k) == Str(FeedRaw[((k - 1) % Len(FeedRaw)) + 1])

\* The response carrying the next n plates after `done` were reported.
FeedResponse(done, n) ==
  Response(MIN_IMAGE_LEN, FALSE, "json", FALSE, TRUE, [k \in 1 .. n |-> Feed(done + k)])

InitLog == InitWith(InitialStores, LOG_CAP + LogOverflow)

NextLog ==
  \/ Mount
  \/ Commit
  \/ SwitchMode(FLASH)
  \/ \E s \in StreamIds : CameraGranted(s)
  \/ VideoHasData
  \/ TickSkip
  \/ TickNoContext
  \/ TickDetect
  \/ \E i \in 1 .. MaxCalls, n \in 1 .. MaxChunk :
       Resolve(i, FeedResponse(Len(evaluated), n))
  \/ ClearAlert
  \/ Advance

SpecLog == InitLog /\ [][NextLog]_vars

\* A capture session in which the Detector never reports a plate: every call
\* fails or comes back empty.  React commits the renders it scheduled, timers
\* fire, getUserMedia and the Detector settle, a live stream fills the <video>.
NoPlateResponses == {resp \in Responses : \A k \in 1 .. Len(resp.plates) : ~resp.plates[k].isString}
                      \cup {ShortImage, NotArray}

InitLive == InitWith(InitialStores, 0)

NextLive ==
  \/ Mount
  \/ Commit
  \/ \E m \in {LIST, FLASH} : SwitchMode(m)
  \/ \E id \in Ids \cup {0} : removePlate(id)
  \/ \E s \in StreamIds : CameraGranted(s)
  \/ CameraDenied
  \/ VideoHasData
  \/ TickSkip
  \/ TickNoContext
  \/ TickDetect
  \/ \E i \in 1 .. MaxCalls, resp \in NoPlateResponses : Resolve(i, resp)
  \/ Advance

CameraSettles == (\E s \in StreamIds : CameraGranted(s)) \/ CameraDenied

Tick == TickSkip \/ TickNoContext \/ TickDetect

SpecLive ==
  /\ InitLive
  /\ [][NextLive]_vars
  /\ WF_vars(Commit)
  /\ WF_vars(Advance)
  /\ WF_vars(Tick)
  /\ WF_vars(CameraSettles)
  /\ WF_vars(VideoHasData)
  /\ WF_vars(\E i \in 1 .. MaxCalls, resp \in NoPlateResponses : Resolve(i, resp))

\* The PLAQUE field fed with every string of up to MaxTyped of these keys: a
\* lower-case letter, a digit, punctuation and a letter that uppercases to two.
Keys == {"a", "1", "-", "ß"}

TypedInputs == SeqsUpTo(Keys, MaxTyped)

\* A first visit: nothing is persisted yet.
InitNormalize == InitWith({NoData}, 0)

NextNormalize ==
  \/ Mount
  \/ \E raw \in TypedInputs : AddTooShort(raw)
  \/ \E raw \in TypedInputs : AddDuplicate(raw)
  \/ \E raw \in TypedInputs : AddNew(raw)

SpecNormalize == InitNormalize /\ [][NextNormalize]_vars

TypeOK ==
  /\ mode \in {LIST, FLASH}
  /\ isProcessing \in BOOLEAN
  /\ Len(sessionLog) <= LOG_CAP
  /\ pendingGUM \in 0 .. MaxPending
  /\ liveStreams \subseteq StreamIds
  /\ Len(calls) <= MaxCalls

\* ===================================================================== claims

\* C1: single-flight. In every reachable state at most one detectPlatesFromImage
\* call is in flight: a tick that fires while a previous tick's call has not
\* settled issues no second call.
SingleFlight == Len(calls) <= 1

\* C2: a second match before the first match's clear has fired resets the
\* 5-second window: AlertState is not cleared until 5 seconds after it was
\* last written, so the clear scheduled for the older match does not clear the
\* newer one.
AlertWindowReset ==
  [][(detectedRecently # Null /\ detectedRecently' = Null) => sinceWrite >= CLEAR_UNITS]_vars

\* A step in which a detection call settles (only Resolve shortens calls).
Settles == Len(calls') < Len(calls)

\* C3: a detection result that arrives after the poller has left Capturing is
\* discarded: it appends no session log entry, does not change AlertState and
\* triggers no audio alert.
LateResultDiscarded ==
  [][(Settles /\ mode # FLASH)
       => /\ sessionLog' = sessionLog
          /\ detectedRecently' = detectedRecently
          /\ lastResolve'.audio = 0]_vars

\* C4: the camera is released on every exit path: once the poller is Idle and
\* no acquisition is pending, no acquired stream is left with tracks running.
CameraReleased ==
  (mode = LIST /\ rendered.mode = LIST /\ pendingGUM = 0) => liveStreams = {}

\* C5: when getUserMedia fails, the error is reported and the poller is Idle
\* afterwards: the mode is not FLASH and no poll timer is registered.
CameraFailureStaysIdle ==
  [][(pendingGUM' < pendingGUM /\ liveStreams' = liveStreams)
       => /\ alertMsg' = CameraMsg
          /\ mode' # FLASH
          /\ ~interval'.on]_vars

\* C6: the in-flight flag is cleared on every exit path of processFrame taken
\* after it was set, so it is never left set with no call outstanding.
FlagClearedOnEveryPath == isProcessing => Len(calls) > 0

\* C7: a Detector failure (service error, empty text, unparsable JSON, plates
\* not an array) yields an empty detection sequence: the settling step leaves
\* the watchlist, its persisted copy, the session log and AlertState as they
\* were, schedules no clear and plays no sound.
FailureLeavesStateUntouched ==
  [][(Settles /\ lastResolve'.kind = "failed")
       => /\ plates' = plates
          /\ storage' = storage
          /\ sessionLog' = sessionLog
          /\ detectedRecently' = detectedRecently
          /\ timeouts' = timeouts
          /\ lastResolve'.audio = 0]_vars

\* C7 witness: a call has failed while the log and AlertState held a match.
WitnessFailedTick ==
  /\ lastResolve.kind = "failed"
  /\ plates # <<>>
  /\ sessionLog # <<>>
  /\ detectedRecently # Null

\* C9: after any sequence of detections the session log holds at most 10
\* entries, and they are exactly the (up to) 10 most recently evaluated
\* detections, newest first.
LogIsLastTen ==
  /\ Len(sessionLog) <= LOG_CAP
  /\ Len(sessionLog) = (IF Len(evaluated) < LOG_CAP THEN Len(evaluated) ELSE LOG_CAP)
  /\ \A k \in 1 .. Len(sessionLog) : sessionLog[k] = evaluated[k]

\* C9 witness: more than 10 detections were evaluated, the two latest differ.
WitnessLogOverflow ==
  /\ Len(evaluated) = LOG_CAP + LogOverflow
  /\ evaluated[1] # evaluated[2]
  /\ evaluated[LOG_CAP] # evaluated[LOG_CAP + 1]

\* The <video> has no live stream, none is being acquired and no effect run is
\* due: the video source cannot become ready.
CameraLost ==
  /\ pendingGUM = 0
  /\ videoSrc \notin liveStreams
  /\ ~videoReady
  /\ Snapshot(plates, isProcessing, mode) = rendered

\* C8: the poll loop never terminates itself: after a tick whose detection call
\* failed or returned a malformed response, unless the poller leaves Capturing
\* or the camera is lost, a later tick issues a new detection call.
PollLoopContinues ==
  (lastResolve.kind = "failed" /\ mode = FLASH /\ rendered.mode = FLASH)
    ~> (calls # <<>> \/ mode # FLASH \/ CameraLost)

\* C8, the part that holds: the same, from the states in which the failed
\* call's finally has cleared the flag and the canvas gives a 2D context.
PollLoopContinuesWithContext ==
  (lastResolve.kind = "failed" /\ mode = FLASH /\ rendered.mode = FLASH
     /\ calls = <<>> /\ ~isProcessing /\ ctxOk)
    ~> (calls # <<>> \/ mode # FLASH \/ CameraLost)

\* C10: add(raw) fails exactly when normalize(raw) is shorter than 4 characters
\* or is the number of an entry already in the store; on a failure the
\* in-memory collection and the persisted collection are unchanged.
AddFailsExactly ==
  [][lastAdd' # lastAdd
       => LET token == normalizePlate(lastAdd'.raw)
              short == Len(token) < MIN_LEN
              watched == \E k \in 1 .. Len(plates) : plates[k].number = token
          IN /\ (lastAdd'.result = "tooShort") <=> short
             /\ (lastAdd'.result = "duplicate") <=> (~short /\ watched)
             /\ (lastAdd'.result = "added") <=> (~short /\ ~watched)
             /\ lastAdd'.result # "added" => (plates' = plates /\ storage' = storage)]_vars

\* C10 witness: "ab-12" was refused as a duplicate of the stored AB12, and a
\* token of exactly 4 characters is in the store.
WitnessAddRefused ==
  /\ lastAdd.result = "duplicate"
  /\ lastAdd.raw = <<"a", "b", "-", "1", "2">>
  /\ plates # <<>>
  /\ plates[1].number = <<"A", "B", "1", "2">>
  /\ storage = Saved(JSONstringify(plates))

\* The raw input "ab-12" and the token it normalizes to.
ab12 == <<"a", "b", "-", "1", "2">>

AB12 == <<"A", "B", "1", "2">>

\* C11 as stated: add("ab-12") fails and leaves the store unchanged.
AddAB12Fails ==
  [][(lastAdd' # lastAdd /\ lastAdd'.raw = ab12)
       => /\ lastAdd'.result # "added"
          /\ plates' = plates
          /\ storage' = storage]_vars

\* C11 as amended: the token of "ab-12" is AB12, of length exactly 4, which is
\* long enough: add("ab-12") succeeds and stores AB12 at the front, unless AB12
\* is already watched, and then it fails as a duplicate and leaves the store
\* unchanged.
AddAB12AtBoundary ==
  [][(lastAdd' # lastAdd /\ lastAdd'.raw = ab12)
       => IF \E k \in 1 .. Len(plates) : plates[k].number = AB12
            THEN /\ lastAdd'.result = "duplicate"
                 /\ plates' = plates
                 /\ storage' = storage
            ELSE /\ lastAdd'.result = "added"
                 /\ Len(plates') = Len(plates) + 1
                 /\ plates'[1].number = AB12
                 /\ storage' = Saved(JSONstringify(plates'))]_vars

\* C11 witness: add("ab-12") has succeeded and AB12 is the newest entry.
WitnessAB12Added ==
  /\ lastAdd.raw = ab12
  /\ lastAdd.result = "added"
  /\ plates # <<>>
  /\ plates[1].number = AB12

\* C12: every entry of the watchlist has a number that is non-empty, made of
\* characters of [A-Z0-9] only and at least 4 long, and no two entries share a
\* number or an id.
WatchlistInvariant ==
  /\ \A k \in 1 .. Len(plates) :
       /\ plates[k].number # <<>>
       /\ \A n \in 1 .. Len(plates[k].number) : plates[k].number[n] \in AZ09
       /\ Len(plates[k].number) >= MIN_LEN
  /\ \A j, k \in 1 .. Len(plates) :
       j # k => (plates[j].number # plates[k].number /\ plates[j].id # plates[k].id)

\* C12 witness: two entries added from raw inputs with punctuation, lower case
\* and a character that uppercases to two, after an entry was removed.
WitnessTwoAdded ==
  /\ Len(plates) = 2
  /\ nextId = MaxIds + 1
  /\ plates[1].number = <<"S", "S", "A", "B">>
  /\ plates[2].number = AB12

\* C13: remove(id) of an entry of the store deletes exactly that entry: the
\* others keep their order, the removed token is no longer contained and the
\* result is persisted; remove of an id that is not in the store leaves the
\* collection and its persisted copy as they were.
RemoveDeletesExactly ==
  [][\A id \in Ids \cup {0} :
       removePlate(id)
         => IF \E k \in 1 .. Len(plates) : plates[k].id = id
              THEN \E k \in 1 .. Len(plates) :
                     /\ plates[k].id = id
                     /\ plates' = RemoveAt(plates, k)
                     /\ ~contains(plates', plates[k].number)
                     /\ storage' = Saved(JSONstringify(plates'))
              ELSE /\ plates' = plates
                   /\ storage' = storage]_vars

\* C13 witness: the entry with id 2 was created and is gone, the entry with
\* id 1 is still there, and the store is persisted.
WitnessRemoved ==
  /\ nextId = 3
  /\ Len(plates) = 1
  /\ plates[1].id = 1
  /\ storage = Saved(JSONstringify(plates))

\* The detections evaluated by a settling step are the first
\* Len(evaluated') - Len(evaluated) entries of evaluated', newest first.
\* C14: a detection whose normalized token is in the watchlist sets AlertState
\* to that token, and one whose token is not in the watchlist leaves AlertState
\* as it is: after a call settles AlertState is the token of the last detection
\* that is in the watchlist, or unchanged when there was none.
MatchSetsAlert ==
  [][Settles
       => LET n == Len(evaluated') - Len(evaluated)
              hits == {k \in 1 .. n : contains(plates, evaluated'[k].number)}
          IN detectedRecently' = IF hits = {} THEN detectedRecently
                                 ELSE evaluated'[Least(hits)].number]_vars

\* C15: the startup sequence (the load effect, the save effect, the commit of
\* the loaded list) never replaces persisted entries with an empty collection.
StartupKeepsPersisted ==
  [][((~mounted \/ plates # rendered.plates) /\ storage.saved /\ storage.blob # <<>>)
       => storage'.blob # <<>>]_vars

\* C16: normalize is idempotent and canonical: the token of what was typed is
\* left as it is by a second normalization and holds characters of [A-Z0-9] only.
NormalizeIdempotentCanonical ==
  LET token == normalizePlate(lastAdd.raw)
  IN /\ normalizePlate(token) = token
     /\ \A k \in 1 .. Len(token) : token[k] \in AZ09

\* C16 witness: an input with a lower-case letter, punctuation and a letter
\* that uppercases to two was normalized.
WitnessNormalized ==
  /\ lastAdd.raw = <<"a", "-", "ß">>
  /\ lastAdd.result = "tooShort"
  /\ normalizePlate(lastAdd.raw) = <<"A", "S", "S">>
  /\ plates # <<>>
  /\ plates[1].number = <<"S", "S", "1", "A">>

\* C17: the match flag of every entry a settling call logs, and whether it
\* raises the alert, is membership of the token in the watchlist as it is when
\* the result is evaluated: a plate no longer watched is not logged as a match
\* and does not set AlertState.
MatchUsesCurrentStore ==
  [][Settles
       => LET n == Len(evaluated') - Len(evaluated)
          IN /\ \A k \in 1 .. n :
                  evaluated'[k].match = contains(plates, evaluated'[k].number)
             /\ \A k \in 1 .. (IF n < Len(sessionLog') THEN n ELSE Len(sessionLog')) :
                  sessionLog'[k].match = contains(plates, sessionLog'[k].number)
             /\ (\A k \in 1 .. n : ~contains(plates, evaluated'[k].number))
                  => (detectedRecently' = detectedRecently /\ lastResolve'.audio = 0)]_vars

\* A step that starts and ends with the poller in Capturing.
StaysCapturing ==
  /\ mode = FLASH /\ mode' = FLASH
  /\ rendered.mode = FLASH /\ rendered'.mode = FLASH

\* C18: while the poller stays in Capturing no step releases the video source,
\* acquires it again or restarts the poll timer (the timer is only rearmed when
\* it fires).
CaptureResourcesKept ==
  [][StaysCapturing
       => /\ liveStreams \subseteq liveStreams'
          /\ pendingGUM' <= pendingGUM
          /\ (tickIn' > tickIn => tickIn = 0)]_vars

UnitsPerSecond == 1000 \div 200

\* C19: a clear takes effect no earlier than 5 seconds after the AlertState
\* write of the match that scheduled it.
ClearHonorsDelay ==
  [][Len(timeouts') < Len(timeouts)
       => /\ Head(scheduledAgo) >= 5 * UnitsPerSecond
          /\ detectedRecently' = Null]_vars

\* C19 witness: two matches were written at different times, the clear of the
\* first has fired and the clear of the second is still pending.
WitnessClearFired ==
  /\ Len(evaluated) = 2
  /\ evaluated[1].match /\ evaluated[2].match
  /\ detectedRecently = Null
  /\ Len(timeouts) = 1
  /\ timeouts[1] > 0
  /\ scheduledAgo[1] < 5 * UnitsPerSecond

\* C20: a successful add(raw) puts one new entry, with number normalize(raw)
\* and an id no stored entry has, in front of the entries that were there,
\* which stay as they were, and the persisted collection is the new one.
AddInsertsAtFront ==
  [][(lastAdd' # lastAdd /\ lastAdd'.result = "added")
       => /\ plates' # <<>>
          /\ plates' = <<plates'[1]>> \o plates
          /\ plates'[1].number = normalizePlate(lastAdd'.raw)
          /\ \A k \in 1 .. Len(plates) : plates[k].id # plates'[1].id
          /\ storage' = Saved(JSONstringify(plates'))
          /\ JSONparse(storage'.blob) = plates']_vars

\* C20 witness: "cd34" was added in front of an entry that was already there.
WitnessAddedInFront ==
  /\ lastAdd.result = "added"
  /\ lastAdd.raw = <<"c", "d", "3", "4">>
  /\ Len(plates) = 2
  /\ plates[1].number = <<"C", "D", "3", "4">>
  /\ plates[1].id = nextId - 1
  /\ storage = Saved(JSONstringify(plates))

====
